---- MODULE Spec2Model ----
(***************************************************************************)
(* Beacon PDF chatbot backend: chunking (PDFService), retrieval            *)
(* (RAGService) and conversation assembly (ChatService).                   *)
(*                                                                         *)
(* Strings are sequences of one-character strings.  A fixed literal of the *)
(* source that is never inspected character by character (the instruction  *)
(* block of the system prompt, a section header) is one symbol of such a   *)
(* sequence.  Operators on strings never recurse on the length of the      *)
(* string, only on the number of sentences or the length of a whitespace   *)
(* run, so that texts of several thousand characters can be processed.     *)
(***************************************************************************)
EXTENDS Integers, Sequences, FiniteSets, TLC

VARIABLES
    tokenizer,      \* PDFService.tokenizer: "cl100k_base" or "none"
    text,           \* _create_chunks argument
    max_tokens,     \* _create_chunks argument
    chunks,         \* _create_chunks return value
    cc_pc,          \* "ready" before the call, "done" after it
    ct_text,        \* text of a page as PyPDF2 extracts it
    ct_cleaned,     \* _clean_text(ct_text)
    ct_recleaned,   \* _clean_text(ct_cleaned)
    ct_pc,          \* "ready", then "once" and "twice": the calls of _clean_text made
    pdf_pages,      \* extract_text_from_pdf: the page texts of the file read
    ranked,         \* the objects the index holds, in near_text order for the query
    rq_max_tokens,  \* get_relevant_context argument max_tokens
    rq_filename,    \* get_relevant_context argument filename
    rq_limit,       \* limit passed to near_text by the last search
    rq_results,     \* return value of the last search
    rq_parts,       \* context_parts when get_relevant_context returns
    rq_tokens,      \* current_tokens when get_relevant_context returns
    rq_context,     \* return value of get_relevant_context
    rq_pc,          \* "ready" before the call, "done" after it
    _current_pdf_text,    \* PDFService._current_pdf_text
    _current_pdf_path,    \* PDFService._current_pdf_path
    _current_chunks,      \* PDFService._current_chunks
    pdf_context,          \* ChatService.pdf_context
    use_rag,              \* ChatService.use_rag
    current_filename,     \* ChatService.current_filename
    weaviate,             \* objects of the Weaviate collection, in insertion order
    conversation_history, \* history held by the client: the last one returned
    http_request,         \* the request handled last
    http_response,        \* the response to it
    llm_calls,            \* message lists sent to the language model while handling it
    active_upload,        \* how the upload that set the active document went
    external,             \* how the index query and the model call of the last chat went
    upload_task           \* the upload_pdf call in progress and the line it has reached

cleanVars == <<ct_text, ct_cleaned, ct_recleaned, ct_pc, pdf_pages>>
chunkVars == <<text, max_tokens, chunks, cc_pc, cleanVars>>
retrVars == <<ranked, rq_max_tokens, rq_filename, rq_limit, rq_results,
              rq_parts, rq_tokens, rq_context, rq_pc>>
pdfVars == <<_current_pdf_text, _current_pdf_path, _current_chunks>>
chatVars == <<pdf_context, use_rag, current_filename>>
httpVars == <<conversation_history, http_request, http_response, llm_calls, active_upload,
             external, upload_task>>
appVars == <<pdfVars, chatVars, weaviate, httpVars>>
vars == <<tokenizer, chunkVars, retrVars, appVars>>

(***************************************************************************)
(* Bounds of the model.                                                    *)
(***************************************************************************)
MaxTextLen == 8
MaxTokens == 3
MaxCands == 3
MaxBudget == 3
MaxPages == 6
MaxHistory == 10
MaxChats == 2
MaxIndex == 12
MaxCleanLen == 5
MaxDocPages == 3

(***************************************************************************)
(* Python string primitives.                                               *)
(***************************************************************************)
Min(a, b) == IF a < b THEN a ELSE b
Max(a, b) == IF a > b THEN a ELSE b

\* characters matched by \s
IsSpace(c) == c \in {" ", "\n", "\t"}

\* characters matched by [.!?]
IsTerminal(c) == c \in {".", "!", "?"}

\* s[a:b] with 0 <= a, b (Python slice, 0-based, end exclusive)
Slice(s, a, b) == SubSeq(s, a + 1, Min(b, Len(s)))

\* s[:n]
Prefix(s, n) == Slice(s, 0, n)

\* l[-n:] for n > 0
LastN(l, n) == SubSeq(l, Max(1, Len(l) - n + 1), Len(l))

\* index of the last character of the whitespace run that starts at i
RECURSIVE RunEnd(_, _)
RunEnd(s, i) == IF i < Len(s) /\ IsSpace(s[i + 1]) THEN RunEnd(s, i + 1) ELSE i

\* index of the first character of the whitespace run that ends at i
RECURSIVE RunStart(_, _)
RunStart(s, i) == IF i > 1 /\ IsSpace(s[i - 1]) THEN RunStart(s, i - 1) ELSE i

\* str.strip()
Strip(s) ==
    LET first == IF s # <<>> /\ IsSpace(s[1]) THEN RunEnd(s, 1) + 1 ELSE 1
        last  == IF s # <<>> /\ IsSpace(s[Len(s)]) THEN RunStart(s, Len(s)) - 1 ELSE Len(s)
    IN  SubSeq(s, first, last)

\* sep.join(parts)
RECURSIVE Join(_, _)
Join(sep, parts) ==
    IF parts = <<>> THEN <<>>
    ELSE IF Len(parts) = 1 THEN parts[1]
    ELSE parts[1] \o sep \o Join(sep, Tail(parts))

(***************************************************************************)
(* PDFService.count_tokens.  tiktoken is an external library: its encoding *)
(* is modelled as one token per character; without it the code estimates   *)
(* one token per 4 characters.                                             *)
(***************************************************************************)
Tokenizers == {"cl100k_base", "none"}

CharsPerToken == 4

count_tokens(tk, s) ==
    IF tk # "none" THEN Len(s) ELSE Len(s) \div CharsPerToken

(***************************************************************************)
(* PDFService._split_into_sentences:                                       *)
(*   re.split(r'(?<=[.!?])\s+', text), then strip and drop the empty ones. *)
(***************************************************************************)
\* first positions of the matches of (?<=[.!?])\s+
SplitStarts(s) ==
    {i \in 2..Len(s) : IsSpace(s[i]) /\ IsTerminal(s[i - 1])}

\* the pieces of re.split from position `from` on, in order
RECURSIVE SplitFrom(_, _, _)
SplitFrom(s, from, starts) ==
    LET next == {i \in starts : i >= from}
    IN  IF next = {} THEN <<SubSeq(s, from, Len(s))>>
        ELSE LET i == CHOOSE j \in next : \A k \in next : j <= k
             IN  <<SubSeq(s, from, i - 1)>> \o SplitFrom(s, RunEnd(s, i) + 1, starts)

StripAll(pieces) == [i \in 1..Len(pieces) |-> Strip(pieces[i])]

_split_into_sentences(s) ==
    StripAll(SelectSeq(SplitFrom(s, 1, SplitStarts(s)), LAMBDA p : Strip(p) # <<>>))

(***************************************************************************)
(* PDFService._create_chunks.                                              *)
(***************************************************************************)
PDFChunk(content, page_number, chunk_index, metadata) ==
    [content |-> content, page_number |-> page_number,
     chunk_index |-> chunk_index, metadata |-> metadata]

RECURSIVE SumTokens(_, _)
SumTokens(tk, sentences) ==
    IF sentences = <<>> THEN 0
    ELSE count_tokens(tk, sentences[1]) + SumTokens(tk, Tail(sentences))

\* mutant: every chunk of a page is numbered 0
EmitChunk_IndexZero(current_chunk, current_tokens, page_number, chunk_index) ==
    PDFChunk(Join(<<" ">>, current_chunk), page_number, 0,
             [tokens |-> current_tokens, start_sentence |-> 0,
              end_sentence |-> Len(current_chunk)])

\* chunk emitted from the working buffer (both emission sites)
EmitChunk(current_chunk, current_tokens, page_number, chunk_index) ==
    PDFChunk(Join(<<" ">>, current_chunk), page_number, chunk_index,
             [tokens |-> current_tokens, start_sentence |-> 0,
              end_sentence |-> Len(current_chunk)])

\* mutant: the overlap keeps one sentence only
OverlapSentences_One(current_chunk) == LastN(current_chunk, 1)

\* current_chunk[-2:] if len(current_chunk) >= 2 else current_chunk
OverlapSentences(current_chunk) ==
    IF Len(current_chunk) >= 2 THEN LastN(current_chunk, 2) ELSE current_chunk

\* the test that closes the current chunk before `sentence` is added
MustClose(current_chunk, current_tokens, sentence_tokens, maxtok) ==
    current_tokens + sentence_tokens > maxtok /\ current_chunk # <<>>

\* mutant: the buffer left after the loop is not flushed
FinalFlush_Dropped(out, current_chunk, current_tokens, page_number, chunk_index) == out

\* the flush after the loop
FinalFlush(out, current_chunk, current_tokens, page_number, chunk_index) ==
    IF current_chunk # <<>>
    THEN Append(out, EmitChunk(current_chunk, current_tokens, page_number, chunk_index))
    ELSE out

\* the for loop over sentences[i..], followed by the flush
RECURSIVE ChunkLoop(_, _, _, _, _, _, _, _, _)
ChunkLoop(tk, sentences, i, maxtok, page_number, out, current_chunk, current_tokens, chunk_index) ==
    IF i > Len(sentences)
    THEN FinalFlush(out, current_chunk, current_tokens, page_number, chunk_index)
    ELSE LET sentence == sentences[i]
             sentence_tokens == count_tokens(tk, sentence)
         IN  IF MustClose(current_chunk, current_tokens, sentence_tokens, maxtok)
             THEN LET next_chunk == OverlapSentences(current_chunk) \o <<sentence>>
                  IN  ChunkLoop(tk, sentences, i + 1, maxtok, page_number,
                                Append(out, EmitChunk(current_chunk, current_tokens,
                                                      page_number, chunk_index)),
                                next_chunk, SumTokens(tk, next_chunk), chunk_index + 1)
             ELSE ChunkLoop(tk, sentences, i + 1, maxtok, page_number, out,
                            Append(current_chunk, sentence),
                            current_tokens + sentence_tokens, chunk_index)

_create_chunks(tk, s, page_number, maxtok) ==
    IF Strip(s) = <<>> THEN <<>>
    ELSE ChunkLoop(tk, _split_into_sentences(s), 1, maxtok, page_number, <<>>, <<>>, 0, 0)

(***************************************************************************)
(* PDFService._clean_text.                                                 *)
(***************************************************************************)
IsDigit(c) == c \in {"0", "1", "2", "3", "4", "5", "6", "7", "8", "9"}

\* the characters of `tagged` whose keep flag is set
Kept(tagged) ==
    LET kept == SelectSeq(tagged, LAMBDA r : r.keep)
    IN  [i \in 1..Len(kept) |-> kept[i].c]

\* re.sub(r'\s+', ' ', text)
CollapseWhitespace(s) ==
    Kept([i \in 1..Len(s) |->
            [c |-> IF IsSpace(s[i]) THEN " " ELSE s[i],
             keep |-> ~(IsSpace(s[i]) /\ i > 1 /\ IsSpace(s[i - 1]))]])

\* re.sub(r'^\s*\d+\s*$', '', text, flags=re.MULTILINE); the text holds no
\* newline here, so the only line is the text itself
RemoveStandaloneNumber(s) ==
    LET body == Strip(s)
    IN  IF body # <<>> /\ \A i \in 1..Len(body) : IsDigit(body[i]) THEN <<>> ELSE s

\* mutant: the bar is read as the digit 1
FixOcr_BarAsOne(s) ==
    [i \in 1..Len(s) |-> IF s[i] = "|" THEN "1" ELSE IF s[i] = "0" THEN "O" ELSE s[i]]

\* text.replace('|', 'I').replace('0', 'O')
FixOcr(s) ==
    [i \in 1..Len(s) |-> IF s[i] = "|" THEN "I" ELSE IF s[i] = "0" THEN "O" ELSE s[i]]

\* re.sub(r'\n\s*\n\s*\n+', '\n\n', text): in a whitespace run with three or
\* more newlines, the span from its first to its last newline becomes "\n\n"
CollapseBlankLines(s) ==
    LET NewlinesOfRun(i) == {j \in RunStart(s, i)..RunEnd(s, i) : s[j] = "\n"}
        First(S) == CHOOSE j \in S : \A k \in S : j <= k
        Last(S) == CHOOSE j \in S : \A k \in S : j >= k
        InSpan(i) ==
            /\ IsSpace(s[i])
            /\ Cardinality(NewlinesOfRun(i)) >= 3
            /\ First(NewlinesOfRun(i)) <= i
            /\ i <= Last(NewlinesOfRun(i))
    IN  Kept([i \in 1..Len(s) |->
                [c |-> IF InSpan(i) THEN "\n" ELSE s[i],
                 keep |-> InSpan(i) => i <= First(NewlinesOfRun(i)) + 1]])

_clean_text(s) ==
    Strip(CollapseBlankLines(FixOcr(RemoveStandaloneNumber(CollapseWhitespace(s)))))

(***************************************************************************)
(* PDFService.extract_text_from_pdf and PDFService.process_pdf.  A PDF     *)
(* file is the sequence of the texts PyPDF2 extracts from its pages.       *)
(***************************************************************************)
DefaultMaxTokens == 1000

\* the loop over the pages page_num..num_pages-1 (page_num is 0-based)
RECURSIVE PageLoop(_, _, _, _, _)
PageLoop(tk, pages, page_num, all_text, all_chunks) ==
    IF page_num >= Len(pages)
    THEN [all_text |-> all_text, all_chunks |-> all_chunks]
    ELSE LET page_text == pages[page_num + 1]
             cleaned_text == _clean_text(page_text)
         IN  IF Strip(page_text) # <<>>
             THEN PageLoop(tk, pages, page_num + 1, Append(all_text, cleaned_text),
                           all_chunks \o _create_chunks(tk, cleaned_text, page_num,
                                                        DefaultMaxTokens))
             ELSE PageLoop(tk, pages, page_num + 1, all_text, all_chunks)

\* (extracted_text, num_pages, chunks)
extract_text_from_pdf(tk, pages) ==
    LET r == PageLoop(tk, pages, 0, <<>>, <<>>)
    IN  [extracted_text |-> Join(<<"\n", "\n">>, r.all_text),
         num_pages |-> Len(pages), chunks |-> r.all_chunks]

\* str(self.upload_dir / safe_filename) for a file name that needs no sanitizing
SavedPath(filename) == <<"uploads", "/", filename>>

\* where process_pdf can raise: in save_pdf or in extract_text_from_pdf
ProcessFaults == {"save", "extract"}

\* mutant: the path is recorded as soon as the file is saved
process_pdf_PathFirst(cur, filename, ex, stage) ==
    IF stage = "save"
    THEN [raised |-> TRUE, text |-> cur.text, path |-> cur.path, chunks |-> cur.chunks]
    ELSE IF stage = "extract"
    THEN [raised |-> TRUE, text |-> cur.text, path |-> SavedPath(filename),
          chunks |-> cur.chunks]
    ELSE [raised |-> FALSE, text |-> ex.extracted_text, path |-> SavedPath(filename),
          chunks |-> ex.chunks]

\* process_pdf(file_content, filename): the fields of the PDFService afterwards;
\* cur holds them before, ex is what extract_text_from_pdf returns if it returns
process_pdf(cur, filename, ex, stage) ==
    IF stage \in ProcessFaults
    THEN [raised |-> TRUE, text |-> cur.text, path |-> cur.path, chunks |-> cur.chunks]
    ELSE [raised |-> FALSE, text |-> ex.extracted_text, path |-> SavedPath(filename),
          chunks |-> ex.chunks]

(***************************************************************************)
(* RAGService.search and RAGService.get_relevant_context.                  *)
(***************************************************************************)
NoneName == "<None>"

\* truth value of an Optional[str] file name
NameGiven(filename) == filename # NoneName /\ filename # ""

Digit(d) == <<"0", "1", "2", "3", "4", "5", "6", "7", "8", "9">>[d + 1]

\* str(n) for n >= 0
RECURSIVE IntToStr(_)
IntToStr(n) == IF n < 10 THEN <<Digit(n)>> ELSE IntToStr(n \div 10) \o <<Digit(n % 10)>>

\* collection.query.near_text(query, limit): the `limit` nearest objects
near_text(objects, limit) == Prefix(objects, limit)

\* one entry of all_results
ResultOf(object) ==
    [content |-> object.content, page_number |-> object.page_number,
     chunk_index |-> object.chunk_index, filename |-> object.filename,
     score |-> 100 - object.distance, tokens |-> object.tokens]

TopK == 20

\* mutant: the results are not filtered by file name
FilterByFilename_None(all_results, filename) == all_results

\* [r for r in all_results if r['filename'] == filename] when a name is given
FilterByFilename(all_results, filename) ==
    IF NameGiven(filename)
    THEN SelectSeq(all_results, LAMBDA r : r.filename = filename)
    ELSE all_results

\* mutant: the results of the index are returned although the query raised
search_IgnoreFault(objects, ok, top_k, filename) ==
    LET response == near_text(objects, top_k * 3)
        all_results == [i \in 1..Len(response) |-> ResultOf(response[i])]
    IN  Prefix(FilterByFilename(all_results, filename), top_k)

\* search(query, top_k, filename); ok = FALSE when the index query raises
search(objects, ok, top_k, filename) ==
    IF ~ok THEN <<>>
    ELSE LET response == near_text(objects, top_k * 3)
             all_results == [i \in 1..Len(response) |-> ResultOf(response[i])]
         IN  Prefix(FilterByFilename(all_results, filename), top_k)

\* f"[Page {result['page_number']}] {result['content']}"
ContextPart(result) ==
    <<"[", "P", "a", "g", "e", " ">> \o IntToStr(result.page_number) \o <<"]", " ">>
        \o result.content

\* mutant: the loop stops only once the budget has been exceeded
OverBudget_Late(current_tokens, chunk_tokens, maxtok) == current_tokens > maxtok

\* the test that ends the loop over the results
OverBudget(current_tokens, chunk_tokens, maxtok) == current_tokens + chunk_tokens > maxtok

\* mutant: a result over the budget is skipped and the loop goes on
RECURSIVE ContextLoop_Skip(_, _, _, _, _)
ContextLoop_Skip(results, i, maxtok, context_parts, current_tokens) ==
    IF i > Len(results)
    THEN [context_parts |-> context_parts, current_tokens |-> current_tokens]
    ELSE IF current_tokens + results[i].tokens > maxtok
         THEN ContextLoop_Skip(results, i + 1, maxtok, context_parts, current_tokens)
         ELSE ContextLoop_Skip(results, i + 1, maxtok,
                               Append(context_parts, ContextPart(results[i])),
                               current_tokens + results[i].tokens)

\* the for loop over results[i..]
RECURSIVE ContextLoop(_, _, _, _, _)
ContextLoop(results, i, maxtok, context_parts, current_tokens) ==
    IF i > Len(results)
    THEN [context_parts |-> context_parts, current_tokens |-> current_tokens]
    ELSE LET chunk_tokens == results[i].tokens
         IN  IF OverBudget(current_tokens, chunk_tokens, maxtok)
             THEN [context_parts |-> context_parts, current_tokens |-> current_tokens]
             ELSE ContextLoop(results, i + 1, maxtok,
                              Append(context_parts, ContextPart(results[i])),
                              current_tokens + chunk_tokens)

\* get_relevant_context(query, max_tokens, filename), with its locals
get_relevant_context(objects, ok, maxtok, filename) ==
    LET results == search(objects, ok, TopK, filename)
        loop == ContextLoop(results, 1, maxtok, <<>>, 0)
    IN  IF results = <<>>
        THEN [limit |-> TopK * 3, results |-> results, context_parts |-> <<>>,
              current_tokens |-> 0, context |-> <<>>]
        ELSE [limit |-> TopK * 3, results |-> results,
              context_parts |-> loop.context_parts,
              current_tokens |-> loop.current_tokens,
              context |-> Join(<<"\n", "\n">>, loop.context_parts)]

(***************************************************************************)
(* RAGService.create_embeddings and RAGService._clear_existing_data.       *)
(* `fault` says where the Weaviate client raises, if anywhere.             *)
(***************************************************************************)
NoneStr == <<"<None>">>

\* truth value of an Optional[str] text
TextGiven(s) == s # NoneStr /\ s # <<>>

BatchSize == 100

NoFault == [kind |-> "none", batch |-> 0]

\* number of insert_many calls for n chunks
NumBatches(n) == (n + BatchSize - 1) \div BatchSize

\* the places where create_embeddings(chunks, ...) can meet an exception
Faults(cs) ==
    {NoFault, [kind |-> "delete", batch |-> 0], [kind |-> "collection", batch |-> 0]}
        \cup {[kind |-> "insert", batch |-> k] : k \in 1..NumBatches(Len(cs))}

\* data_object of a chunk
DataObject(chunk, filename) ==
    [content |-> chunk.content, page_number |-> chunk.page_number,
     chunk_index |-> chunk.chunk_index, filename |-> filename,
     tokens |-> chunk.metadata.tokens, distance |-> 0]

\* _clear_existing_data: delete_many by file name; an exception is swallowed
_clear_existing_data(objects, filename, fault) ==
    IF fault.kind = "delete" THEN objects
    ELSE SelectSeq(objects, LAMBDA o : o.filename # filename)

\* the objects after the insert_many calls that come before the fault
InsertBatches(objects, cs, filename, fault) ==
    LET done == IF fault.kind = "insert" THEN (fault.batch - 1) * BatchSize ELSE Len(cs)
    IN  objects \o [i \in 1..Min(done, Len(cs)) |-> DataObject(cs[i], filename)]

\* create_embeddings(chunks, filename): the collection afterwards and the result
create_embeddings(objects, cs, filename, fault) ==
    IF cs = <<>> THEN [objects |-> objects, success |-> FALSE]
    ELSE LET cleared == _clear_existing_data(objects, filename, fault)
         IN  IF fault.kind = "collection"
             THEN [objects |-> cleared, success |-> FALSE]
             ELSE [objects |-> InsertBatches(cleared, cs, filename, fault),
                   success |-> fault.kind # "insert"]

(***************************************************************************)
(* ChatService.set_pdf_context.                                            *)
(***************************************************************************)
RagThreshold == 5

\* mutant: documents of exactly 5 chunks use retrieval too
RagEligible_AtLeast(cs) == cs # <<>> /\ Len(cs) >= RagThreshold

\* chunks and len(chunks) > 5
RagEligible(cs) == cs # <<>> /\ Len(cs) > RagThreshold

\* mutant: a failed indexing leaves the flag of the previous document
UseRagAfter_Stale(eligible, success, old_use_rag) ==
    IF eligible THEN (IF success THEN TRUE ELSE old_use_rag) ELSE FALSE

\* the value set_pdf_context assigns to use_rag
UseRagAfter(eligible, success, old_use_rag) ==
    IF eligible THEN (IF success THEN TRUE ELSE FALSE) ELSE FALSE

\* mutant: the text of the new document is added to the text held before
set_pdf_context_Merged(objects, old_use_rag, pdf_text, cs, filename, fault) ==
    LET eligible == RagEligible(cs)
        emb == IF eligible THEN create_embeddings(objects, cs, filename, fault)
               ELSE [objects |-> objects, success |-> FALSE]
    IN  [pdf_context |-> IF TextGiven(pdf_context) THEN pdf_context \o pdf_text
                         ELSE pdf_text,
         current_filename |-> filename,
         use_rag |-> UseRagAfter(eligible, emb.success, old_use_rag),
         objects |-> emb.objects,
         embed |-> IF ~eligible THEN "none" ELSE IF emb.success THEN "ok" ELSE "failed"]

\* set_pdf_context(pdf_text, chunks, filename): the new ChatService fields,
\* the collection afterwards and what became of create_embeddings
set_pdf_context(objects, old_use_rag, pdf_text, cs, filename, fault) ==
    LET eligible == RagEligible(cs)
        emb == IF eligible THEN create_embeddings(objects, cs, filename, fault)
               ELSE [objects |-> objects, success |-> FALSE]
    IN  [pdf_context |-> pdf_text,
         current_filename |-> filename,
         use_rag |-> UseRagAfter(eligible, emb.success, old_use_rag),
         objects |-> emb.objects,
         embed |-> IF ~eligible THEN "none" ELSE IF emb.success THEN "ok" ELSE "failed"]

(***************************************************************************)
(* ChatService.create_system_prompt and ChatService.chat.                  *)
(***************************************************************************)
BasePrompt == <<"You are a helpful AI assistant ... cite the page number\n">>
RelevantHeader == <<"\n\nRelevant PDF Content:\n">>
PreviewHeader == <<"\n\nPDF Content:\n">>
PreviewNote == <<"\n\n[Note: This is a preview of the PDF content. The full document contains more information.]">>

PreviewChars == 4000
FallbackChars == 5000
ContextBudget == 5000
HistoryWindowSize == 8

create_system_prompt(relevant_context, context, rag) ==
    IF relevant_context # <<>>
    THEN BasePrompt \o RelevantHeader \o relevant_context
    ELSE IF TextGiven(context) /\ ~rag
         THEN BasePrompt \o PreviewHeader \o Prefix(context, PreviewChars)
                \o (IF Len(context) > PreviewChars THEN PreviewNote ELSE <<>>)
         ELSE BasePrompt

ChatMessage(role, content) == [role |-> role, content |-> content]

\* mutant: the window keeps the first 8 turns
HistoryWindow_Oldest(history) == Prefix(history, HistoryWindowSize)

\* conversation_history[-8:]
HistoryWindow(history) == LastN(history, HistoryWindowSize)

\* the messages chat prepares for the language model
BuildMessages(system_prompt, history, message) ==
    <<ChatMessage("system", system_prompt)>>
        \o (IF history # <<>> THEN HistoryWindow(history) ELSE <<>>)
        \o <<ChatMessage("user", message)>>

\* relevant_context as chat computes it; `found` is the near_text ranking of
\* the collection and query_ok is FALSE when the index query raises
RelevantContext(rag, context, filename, found, query_ok) ==
    IF rag
    THEN get_relevant_context(found, query_ok, ContextBudget, filename).context
    ELSE IF TextGiven(context) THEN Prefix(context, FallbackChars) ELSE <<>>

\* the reply of the language model to a message
Reply(message) == <<"re:">> \o message

\* mutant: the user turn is appended before the model is called
UpdatedHistory_HalfAppended(history, message, raised) ==
    IF raised THEN history \o <<ChatMessage("user", message)>>
    ELSE history \o <<ChatMessage("user", message),
                      ChatMessage("assistant", Reply(message))>>

\* updated_history: extended only once the model has answered
UpdatedHistory(history, message, raised) ==
    IF raised THEN history
    ELSE history \o <<ChatMessage("user", message),
                      ChatMessage("assistant", Reply(message))>>

\* chat(message, conversation_history); llm_ok = FALSE when the model call raises.
\* passed_history is the caller's list once chat is over: `conversation_history
\* or []` is the caller's own list unless that list is empty
chat(rag, context, filename, found, query_ok, llm_ok, message, history) ==
    LET relevant_context == RelevantContext(rag, context, filename, found, query_ok)
        system_prompt == create_system_prompt(relevant_context, context, rag)
        messages == BuildMessages(system_prompt, history, message)
        updated_history == UpdatedHistory(history, message, ~llm_ok)
    IN  [raised |-> ~llm_ok, messages |-> messages,
         response |-> IF llm_ok THEN Reply(message) ELSE <<>>,
         conversation_history |-> updated_history,
         passed_history |-> IF history # <<>> THEN updated_history ELSE history,
         rag_used |-> rag]

(***************************************************************************)
(* Initial values: the services after construction, no call made yet.      *)
(***************************************************************************)
NoRequest ==
    [op |-> "none", filename |-> NoneName, message |-> <<>>, history |-> <<>>,
     passed_history |-> <<>>, use_rag_before |-> FALSE]

NoResponse == [status |-> 0, detail |-> "", conversation_history |-> <<>>, chunks |-> 0]

\* no index query and no model call made
NoExternal == [query |-> "none", llm |-> "none"]

\* no upload_pdf call in progress
NoTask == [pc |-> "idle", filename |-> NoneName, doc |-> 0]

\* the document context before any upload
NoContext ==
    [text |-> NoneStr, pdf_context |-> NoneStr, current_filename |-> NoneName,
     use_rag |-> FALSE]

AppInit ==
    /\ _current_pdf_text = NoneStr
    /\ _current_pdf_path = NoneStr
    /\ _current_chunks = <<>>
    /\ pdf_context = NoneStr
    /\ use_rag = FALSE
    /\ current_filename = NoneName
    /\ weaviate = <<>>
    /\ conversation_history = <<>>
    /\ http_request = NoRequest
    /\ http_response = NoResponse
    /\ llm_calls = <<>>
    /\ active_upload = [embed |-> "none", chats |-> 0, context |-> NoContext]
    /\ external = NoExternal
    /\ upload_task = NoTask

RetrIdle ==
    /\ ranked = <<>>
    /\ rq_max_tokens = 0
    /\ rq_filename = NoneName
    /\ rq_limit = 0
    /\ rq_results = <<>>
    /\ rq_parts = <<>>
    /\ rq_tokens = 0
    /\ rq_context = <<>>
    /\ rq_pc = "idle"

CleanIdle ==
    /\ ct_text = <<>>
    /\ ct_cleaned = <<>>
    /\ ct_recleaned = <<>>
    /\ ct_pc = "idle"
    /\ pdf_pages = <<>>

ChunkIdle ==
    /\ text = <<>>
    /\ max_tokens = 0
    /\ chunks = <<>>
    /\ cc_pc = "idle"
    /\ CleanIdle

(***************************************************************************)
(* Specification of the retriever: any ranked list of objects of two       *)
(* documents, any budget.                                                  *)
(***************************************************************************)
Filenames == {"a.pdf", "b.pdf"}

\* content of the chunk of a page, different for every page
PageContent(page_number) == <<"p">> \o IntToStr(page_number) \o <<".">>

IndexObject(page_number, filename, tokens, distance) ==
    [content |-> PageContent(page_number), page_number |-> page_number,
     chunk_index |-> 0, filename |-> filename, tokens |-> tokens,
     distance |-> distance]

SmallObjects ==
    {IndexObject(p, f, t, 0) : p \in 0..1, f \in Filenames, t \in 0..2}

SmallRanked == UNION {[1..n -> SmallObjects] : n \in 0..MaxCands}

\* n objects, every period-th one of the other document
LongRanked(n, period, tokens) ==
    [i \in 1..n |-> IndexObject(i, IF i % period = 0 THEN "b.pdf" ELSE "a.pdf",
                                tokens, Min(i, 100))]

LongRankedLists ==
    {LongRanked(n, period, t) : n \in {TopK + 1, 2 * TopK, 3 * TopK + 2},
                                period \in {1, 2, 3, 3 * TopK + 3}, t \in 0..1}

Budgets == 0..MaxBudget \cup {TopK - 1, TopK + 1}

InitRetr ==
    /\ tokenizer = "cl100k_base"
    /\ ChunkIdle
    /\ ranked \in SmallRanked \cup LongRankedLists
    /\ rq_max_tokens \in Budgets
    /\ rq_filename \in Filenames \cup {NoneName}
    /\ rq_limit = 0
    /\ rq_results = <<>>
    /\ rq_parts = <<>>
    /\ rq_tokens = 0
    /\ rq_context = <<>>
    /\ rq_pc = "ready"
    /\ AppInit

GetRelevantContextCall ==
    /\ rq_pc = "ready"
    /\ \E ok \in BOOLEAN :
          LET r == get_relevant_context(ranked, ok, rq_max_tokens, rq_filename)
          IN  /\ rq_limit' = r.limit
              /\ rq_results' = r.results
              /\ rq_parts' = r.context_parts
              /\ rq_tokens' = r.current_tokens
              /\ rq_context' = r.context
              /\ rq_pc' = IF ok THEN "done" ELSE "failed"
    /\ UNCHANGED <<tokenizer, chunkVars, ranked, rq_max_tokens, rq_filename, appVars>>

NextRetr == GetRelevantContextCall

SpecRetr == InitRetr /\ [][NextRetr]_vars

(***************************************************************************)
(* Specification of the chunker: any page text, any max_tokens.            *)
(***************************************************************************)
ChunkAlphabet == {"a", ".", " "}

PageTexts == UNION {[1..n -> ChunkAlphabet] : n \in 0..MaxTextLen}

InitChunk ==
    /\ tokenizer \in Tokenizers
    /\ text \in PageTexts
    /\ max_tokens \in 0..MaxTokens
    /\ chunks = <<>>
    /\ cc_pc = "ready"
    /\ CleanIdle
    /\ RetrIdle
    /\ AppInit

CreateChunksCall ==
    /\ cc_pc = "ready"
    /\ \E page_number \in 0..1 :
          chunks' = _create_chunks(tokenizer, text, page_number, max_tokens)
    /\ cc_pc' = "done"
    /\ UNCHANGED <<tokenizer, text, max_tokens, cleanVars, retrVars, appVars>>

NextChunk == CreateChunksCall

SpecChunk == InitChunk /\ [][NextChunk]_vars

(***************************************************************************)
(* Specification of the normalization: _clean_text applied to any page     *)
(* text, then to its own result.                                           *)
(***************************************************************************)
CleanAlphabet == {" ", "\n", "0", "1", "|", "a"}

RawTexts == UNION {[1..n -> CleanAlphabet] : n \in 0..MaxCleanLen}

InitClean ==
    /\ tokenizer = "cl100k_base"
    /\ text = <<>>
    /\ max_tokens = 0
    /\ chunks = <<>>
    /\ cc_pc = "idle"
    /\ ct_text \in RawTexts
    /\ ct_cleaned = <<>>
    /\ ct_recleaned = <<>>
    /\ ct_pc = "ready"
    /\ pdf_pages = <<>>
    /\ RetrIdle
    /\ AppInit

CleanTextCall ==
    /\ ct_pc = "ready"
    /\ ct_cleaned' = _clean_text(ct_text)
    /\ ct_pc' = "once"
    /\ UNCHANGED <<tokenizer, text, max_tokens, chunks, cc_pc, ct_text,
                   ct_recleaned, pdf_pages, retrVars, appVars>>

CleanTextAgain ==
    /\ ct_pc = "once"
    /\ ct_recleaned' = _clean_text(ct_cleaned)
    /\ ct_pc' = "twice"
    /\ UNCHANGED <<tokenizer, text, max_tokens, chunks, cc_pc, ct_text,
                   ct_cleaned, pdf_pages, retrVars, appVars>>

NextClean == CleanTextCall \/ CleanTextAgain

SpecClean == InitClean /\ [][NextClean]_vars

(***************************************************************************)
(* The application: the upload_pdf and chat handlers of main.py over the   *)
(* two services and the Weaviate collection.  A handler runs from start to *)
(* end without another one in between.                                     *)
(***************************************************************************)
UploadNames == {"a.pdf", "b.pdf", "notes.txt"}

\* file.filename.lower().endswith('.pdf')
HasPdfSuffix(filename) == filename \in {"a.pdf", "b.pdf"}

\* the message a client sends after `history`: its turns are numbered
Messages(history) == {<<"q">> \o IntToStr(Len(history) \div 2 + 1)}

\* text of page i of a small document
SmallPage(i) == <<"p">> \o IntToStr(i) \o <<".">>

\* a page of n characters without whitespace
LongPage(n) == [i \in 1..n |-> "x"] \o <<>>

\* documents of 0..MaxPages one-chunk pages, and one with a blank page and a
\* page that holds a page number only
SmallPdfFiles ==
    [n \in 1..(MaxPages + 1) |-> [i \in 1..(n - 1) |-> SmallPage(i)]]
        \o <<<<SmallPage(1), <<" ", "\n">>, <<"7">>, SmallPage(4)>>>>

\* documents around the 4000 and 5000 character ceilings
LongPdfFiles ==
    <<<<LongPage(PreviewChars)>>, <<LongPage(PreviewChars + 1)>>,
      <<LongPage(FallbackChars + 1)>>,
      [i \in 1..(RagThreshold + 1) |-> LongPage(PreviewChars \div RagThreshold)]>>

\* process_pdf applied to each of the files, by tokenizer
ProcessAll(tk, pdfs) == [d \in 1..Len(pdfs) |-> extract_text_from_pdf(tk, pdfs[d])] \o <<>>

SmallProcessed ==
    [cl100k_base |-> ProcessAll("cl100k_base", SmallPdfFiles),
     none |-> ProcessAll("none", SmallPdfFiles)]

LongProcessed ==
    [cl100k_base |-> ProcessAll("cl100k_base", LongPdfFiles),
     none |-> ProcessAll("none", LongPdfFiles)]

Reverse(l) == [i \in 1..Len(l) |-> l[Len(l) + 1 - i]]

\* the collection as near_text ranks it for a query
QueryOutcomes == {"stored", "reversed", "raises"}

Found(objects, outcome) == IF outcome = "reversed" THEN Reverse(objects) ELSE objects

\* the services as lifespan() constructs them, tiktoken installed
Init ==
    /\ tokenizer = "cl100k_base"
    /\ ChunkIdle
    /\ RetrIdle
    /\ AppInit


UploadRequest(filename) ==
    [op |-> "upload", filename |-> filename, message |-> <<>>, history |-> <<>>,
     passed_history |-> <<>>, use_rag_before |-> use_rag]

\* the fields of the PDFService
CurrentPdf ==
    [text |-> _current_pdf_text, path |-> _current_pdf_path, chunks |-> _current_chunks]

\* the upload ends with an HTTPException before set_pdf_context is reached;
\* pdf holds the fields of the PDFService at that point
UploadFails(filename, status, detail, pdf) ==
    /\ http_request' = UploadRequest(filename)
    /\ http_response' = [status |-> status, detail |-> detail,
                         conversation_history |-> <<>>, chunks |-> 0]
    /\ _current_pdf_text' = pdf.text
    /\ _current_pdf_path' = pdf.path
    /\ _current_chunks' = pdf.chunks
    /\ UNCHANGED <<chatVars, weaviate, active_upload>>

\* mutant: an upload whose indexing failed is answered with an error
UploadStatus_IndexFatal(embed) == IF embed = "failed" THEN 500 ELSE 200

\* status of the upload once set_pdf_context has returned: set_pdf_context
\* raises nothing, whatever became of create_embeddings
UploadStatus(embed) == 200

\* process_pdf and set_pdf_context run to the end
UploadSucceeds(filename, ex, fault) ==
    LET pdf == process_pdf(CurrentPdf, filename, ex, "none")
        ctx == set_pdf_context(weaviate, use_rag, pdf.text, pdf.chunks, filename, fault)
    IN  /\ Len(ctx.objects) <= MaxIndex
        /\ http_request' = UploadRequest(filename)
        /\ _current_pdf_text' = pdf.text
        /\ _current_pdf_path' = pdf.path
        /\ _current_chunks' = pdf.chunks
        /\ pdf_context' = ctx.pdf_context
        /\ current_filename' = ctx.current_filename
        /\ use_rag' = ctx.use_rag
        /\ weaviate' = ctx.objects
        /\ active_upload' =
              [embed |-> ctx.embed, chats |-> 0,
               context |-> [text |-> pdf.text, pdf_context |-> ctx.pdf_context,
                            current_filename |-> ctx.current_filename,
                            use_rag |-> ctx.use_rag]]
        /\ http_response' = [status |-> UploadStatus(ctx.embed), detail |-> "",
                             conversation_history |-> <<>>, chunks |-> Len(pdf.chunks)]

\* POST /upload-pdf with one of the processed files `processed`
Upload(processed) ==
    /\ \/ \E filename \in UploadNames, size_ok \in BOOLEAN :
             /\ ~HasPdfSuffix(filename) \/ ~size_ok
             /\ UploadFails(filename, 400,
                            IF ~HasPdfSuffix(filename) THEN "type" ELSE "size", CurrentPdf)
       \/ \E filename \in UploadNames, stage \in ProcessFaults :
             /\ HasPdfSuffix(filename)
             /\ UploadFails(filename, 500, stage,
                            process_pdf(CurrentPdf, filename, <<>>, stage))
       \/ \E filename \in UploadNames, d \in 1..Len(processed[tokenizer]) :
             /\ HasPdfSuffix(filename)
             /\ LET ex == processed[tokenizer][d]
                IN  \E fault \in (IF RagEligible(ex.chunks) THEN Faults(ex.chunks)
                                  ELSE {NoFault}) :
                       UploadSucceeds(filename, ex, fault)
    /\ llm_calls' = <<>>
    /\ external' = NoExternal
    /\ UNCHANGED <<tokenizer, chunkVars, retrVars, conversation_history, upload_task>>

\* the ChatRequest of a call, with its conversation_history list before and
\* after the handler
ChatCall(message, history, passed_history) ==
    [op |-> "chat", filename |-> NoneName, message |-> message, history |-> history,
     passed_history |-> passed_history, use_rag_before |-> use_rag]

\* mutant: the response carries the window sent to the model, not the history
ChatResponse_Windowed(status, history) ==
    [status |-> status,
     detail |-> IF status = 400 THEN "no pdf" ELSE IF status = 500 THEN "chat" ELSE "",
     conversation_history |-> HistoryWindow(history), chunks |-> 0]

ChatResponse(status, history) ==
    [status |-> status,
     detail |-> IF status = 400 THEN "no pdf" ELSE IF status = 500 THEN "chat" ELSE "",
     conversation_history |-> history, chunks |-> 0]

\* POST /chat with a history of at most maxhist turns: the history the last
\* chat returned, or none
Chat(maxhist) ==
    \E history \in {conversation_history, <<>>}, llm_ok \in BOOLEAN,
       outcome \in (IF use_rag THEN QueryOutcomes ELSE {"stored"}) :
      \E message \in Messages(history) :
        /\ Len(history) <= maxhist
        /\ IF ~TextGiven(_current_pdf_text)
           THEN /\ http_request' = ChatCall(message, history, history)
                /\ http_response' = ChatResponse(400, <<>>)
                /\ llm_calls' = <<>>
                /\ external' = NoExternal
                /\ UNCHANGED <<conversation_history, active_upload>>
           ELSE LET r == chat(use_rag, pdf_context, current_filename,
                              Found(weaviate, outcome), outcome # "raises",
                              llm_ok, message, history)
                IN  /\ http_request' = ChatCall(message, history, r.passed_history)
                    /\ llm_calls' = <<r.messages>>
                    /\ external' = [query |-> IF use_rag THEN outcome ELSE "none",
                                    llm |-> IF llm_ok THEN "ok" ELSE "raises"]
                    /\ active_upload' =
                          [active_upload EXCEPT !.chats = Min(@ + 1, MaxChats)]
                    /\ IF r.raised
                       THEN /\ http_response' = ChatResponse(500, <<>>)
                            /\ UNCHANGED conversation_history
                       ELSE /\ http_response' = ChatResponse(200, r.conversation_history)
                            /\ conversation_history' = r.conversation_history
        /\ UNCHANGED <<tokenizer, chunkVars, retrVars, pdfVars, chatVars, weaviate,
                       upload_task>>

UploadPdf == Upload(SmallProcessed)

ChatRequest == Chat(MaxHistory)

Next == UploadPdf \/ ChatRequest

Spec == Init /\ [][Next]_vars

(***************************************************************************)
(* The same handlers with documents around the character ceilings and      *)
(* chat requests that carry no history.                                    *)
(***************************************************************************)
UploadLongPdf == Upload(LongProcessed)

ChatOnce == Chat(0)

NextLong == UploadLongPdf \/ ChatOnce

SpecLong == Init /\ [][NextLong]_vars

(***************************************************************************)
(* The handlers on the event loop.  upload_pdf is a coroutine: it runs up   *)
(* to `await file.read()` and is resumed later, and chat, which awaits      *)
(* nothing, can be served in between.  The rest of upload_pdf is followed   *)
(* line by line; the event loop serves another request only where the       *)
(* running handler awaits.                                                 *)
(***************************************************************************)
\* mutant: the handlers run on threads and can be preempted at any line
YieldPoints_Threaded == {"idle", "read", "processed", "context_set"}

\* positions of upload_pdf at which the event loop can serve another request:
\* no upload running, or the upload awaiting file.read()
YieldPoints == {"idle", "read"}

\* the files uploaded here: one page, 5 pages and 6 pages
ConcDocs == {2, RagThreshold + 1, RagThreshold + 2}

\* upload_pdf up to `await file.read()`
UploadStart ==
    /\ upload_task.pc = "idle"
    /\ \E filename \in UploadNames, d \in ConcDocs :
          IF ~HasPdfSuffix(filename)
          THEN /\ UploadFails(filename, 400, "type", CurrentPdf)
               /\ upload_task' = NoTask
          ELSE /\ Len(weaviate) + Len(SmallProcessed[tokenizer][d].chunks) <= MaxIndex
               /\ upload_task' = [pc |-> "read", filename |-> filename, doc |-> d]
               /\ UNCHANGED <<pdfVars, chatVars, weaviate, active_upload,
                              http_request, http_response>>
    /\ llm_calls' = <<>>
    /\ external' = NoExternal
    /\ UNCHANGED <<tokenizer, chunkVars, retrVars, conversation_history>>

\* the size check and process_pdf
UploadProcess ==
    /\ upload_task.pc = "read"
    /\ \E size_ok \in BOOLEAN, stage \in ProcessFaults \cup {"none"} :
          LET filename == upload_task.filename
              ex == SmallProcessed[tokenizer][upload_task.doc]
              pdf == process_pdf(CurrentPdf, filename, ex, stage)
          IN  IF ~size_ok
              THEN /\ UploadFails(filename, 400, "size", CurrentPdf)
                   /\ upload_task' = NoTask
              ELSE IF pdf.raised
              THEN /\ UploadFails(filename, 500, stage, pdf)
                   /\ upload_task' = NoTask
              ELSE /\ _current_pdf_text' = pdf.text
                   /\ _current_pdf_path' = pdf.path
                   /\ _current_chunks' = pdf.chunks
                   /\ upload_task' = [upload_task EXCEPT !.pc = "processed"]
                   /\ UNCHANGED <<chatVars, weaviate, active_upload,
                                  http_request, http_response>>
    /\ UNCHANGED <<tokenizer, chunkVars, retrVars, conversation_history, llm_calls,
                   external>>

\* the first two assignments of set_pdf_context
UploadSetContext ==
    /\ upload_task.pc = "processed"
    /\ pdf_context' = SmallProcessed[tokenizer][upload_task.doc].extracted_text
    /\ current_filename' = upload_task.filename
    /\ upload_task' = [upload_task EXCEPT !.pc = "context_set"]
    /\ UNCHANGED <<tokenizer, chunkVars, retrVars, pdfVars, use_rag, weaviate,
                   conversation_history, http_request, http_response, llm_calls,
                   active_upload, external>>

\* the rest of set_pdf_context, with create_embeddings, and the response
UploadIndex ==
    /\ upload_task.pc = "context_set"
    /\ LET filename == upload_task.filename
           ex == SmallProcessed[tokenizer][upload_task.doc]
       IN  \E fault \in (IF RagEligible(ex.chunks) THEN Faults(ex.chunks)
                         ELSE {NoFault}) :
              LET ctx == set_pdf_context(weaviate, use_rag, ex.extracted_text,
                                         ex.chunks, filename, fault)
              IN  /\ use_rag' = ctx.use_rag
                  /\ weaviate' = ctx.objects
                  /\ active_upload' =
                        [embed |-> ctx.embed, chats |-> 0,
                         context |-> [text |-> _current_pdf_text,
                                      pdf_context |-> pdf_context,
                                      current_filename |-> current_filename,
                                      use_rag |-> ctx.use_rag]]
                  /\ http_request' = UploadRequest(filename)
                  /\ http_response' =
                        [status |-> UploadStatus(ctx.embed), detail |-> "",
                         conversation_history |-> <<>>, chunks |-> Len(ex.chunks)]
    /\ upload_task' = NoTask
    /\ UNCHANGED <<tokenizer, chunkVars, retrVars, pdfVars, pdf_context,
                   current_filename, conversation_history, llm_calls, external>>

\* a chat request served while the event loop is free
ChatWhileUpload ==
    /\ upload_task.pc \in YieldPoints
    /\ Chat(0)

NextConc ==
    UploadStart \/ UploadProcess \/ UploadSetContext \/ UploadIndex \/ ChatWhileUpload

SpecConc == Init /\ [][NextConc]_vars

(***************************************************************************)
(* Specification of the extraction: extract_text_from_pdf applied to any   *)
(* file of a few pages.  The pages are chunked with the default max_tokens, *)
(* so the sentences are long enough for a page to fill several chunks.     *)
(***************************************************************************)
SentenceChars == 400

\* sentence j of a page: SentenceChars characters, the last letter telling j
LongSentence(j) ==
    LongPage(SentenceChars - 2) \o <<(<<"a", "b", "c", "d">>)[j], ".">>

\* a page of n sentences, one per line
SentencePage(n) == Join(<<"\n">>, [j \in 1..n |-> LongSentence(j)])

\* a blank page, a page with its number only, pages of 1, 3 and 4 sentences
PageKinds ==
    {<<" ", "\n">>, <<"7">>, SentencePage(1), SentencePage(3), SentencePage(4)}

PdfFiles == UNION {[1..n -> PageKinds] : n \in 0..MaxDocPages}

InitExtract ==
    /\ tokenizer \in Tokenizers
    /\ text = <<>>
    /\ max_tokens = DefaultMaxTokens
    /\ chunks = <<>>
    /\ cc_pc = "ready"
    /\ ct_text = <<>>
    /\ ct_cleaned = <<>>
    /\ ct_recleaned = <<>>
    /\ ct_pc = "idle"
    /\ pdf_pages \in PdfFiles
    /\ RetrIdle
    /\ AppInit

ExtractTextCall ==
    /\ cc_pc = "ready"
    /\ LET r == extract_text_from_pdf(tokenizer, pdf_pages)
       IN  /\ text' = r.extracted_text
           /\ chunks' = r.chunks
    /\ cc_pc' = "done"
    /\ UNCHANGED <<tokenizer, max_tokens, cleanVars, retrVars, appVars>>

NextExtract == ExtractTextCall

SpecExtract == InitExtract /\ [][NextExtract]_vars

(***************************************************************************)
(* Properties of the chunker.                                              *)
(***************************************************************************)
\* the sentences a chunk is made of, recovered from its content
ChunkSentences(c) == _split_into_sentences(c.content)

PageSentences == _split_into_sentences(text)

\* number of leading sentences of chunks[i] repeated from chunks[i-1]
OverlapLen(cs, i) ==
    IF i = 1 THEN 0 ELSE Min(2, Len(ChunkSentences(cs[i - 1])))

\* sentences of chunks[i] after its leading overlap
FreshSentences(cs, i) ==
    LET ss == ChunkSentences(cs[i])
    IN  SubSeq(ss, OverlapLen(cs, i) + 1, Len(ss))

\* the fresh sentences of chunks[1..i], in chunk order
RECURSIVE FreshThrough(_, _)
FreshThrough(cs, i) ==
    IF i = 0 THEN <<>> ELSE FreshThrough(cs, i - 1) \o FreshSentences(cs, i)

HasOverlongSentence(c) ==
    \E j \in 1..Len(ChunkSentences(c)) :
        count_tokens(tokenizer, ChunkSentences(c)[j]) > max_tokens

\* C1: every emitted chunk records a token count of at most max_tokens,
\* unless the chunk holds a sentence whose own token count exceeds max_tokens.
C1_TokenCeiling ==
    cc_pc = "done" =>
        \A i \in 1..Len(chunks) :
            chunks[i].metadata.tokens <= max_tokens \/ HasOverlongSentence(chunks[i])

\* C2: the last min(2, n) sentences of chunk i open chunk i+1, in the same
\* order, and are followed there by the next sentence of the page that no
\* earlier chunk holds.
C2_Overlap ==
    cc_pc = "done" =>
        \A i \in 1..(Len(chunks) - 1) :
            LET si == ChunkSentences(chunks[i])
                sj == ChunkSentences(chunks[i + 1])
                k  == Min(2, Len(si))
                emitted == Len(FreshThrough(chunks, i))
            IN  /\ Len(sj) >= k + 1
                /\ SubSeq(sj, 1, k) = LastN(si, k)
                /\ emitted < Len(PageSentences)
                /\ sj[k + 1] = PageSentences[emitted + 1]

\* three chunks, the second one opening with two different overlap sentences
C2_Witness ==
    /\ cc_pc = "done"
    /\ Len(chunks) >= 3
    /\ Len(ChunkSentences(chunks[1])) >= 2
    /\ ChunkSentences(chunks[2])[1] # ChunkSentences(chunks[2])[2]

\* C3: the chunks in chunk_index order, each after the first stripped of its
\* leading overlap sentences, give back the sentences of the page, each once
\* and in order.
C3_Coverage ==
    cc_pc = "done" =>
        /\ \A i \in 1..Len(chunks) : chunks[i].chunk_index = i - 1
        /\ FreshThrough(chunks, Len(chunks)) = PageSentences

\* a page of different sentences spread over several chunks
C3_Witness ==
    /\ cc_pc = "done"
    /\ Len(chunks) >= 2
    /\ Len(PageSentences) >= 3
    /\ PageSentences[1] # PageSentences[2]
    /\ PageSentences[2] # PageSentences[3]

(***************************************************************************)
(* Properties of the retriever.                                            *)
(***************************************************************************)
RetrReturned == rq_pc \in {"done", "failed"}

RECURSIVE SumResultTokens(_)
SumResultTokens(results) ==
    IF results = <<>> THEN 0
    ELSE results[1].tokens + SumResultTokens(Tail(results))

\* a candidate as it is expected to appear in the context
ExpectedPart(r) ==
    <<"[", "P", "a", "g", "e", " ">> \o IntToStr(r.page_number) \o <<"]", " ">> \o r.content

ExpectedContext(results) ==
    Join(<<"\n", "\n">>, [i \in 1..Len(results) |-> ExpectedPart(results[i])])

\* the candidates the returned context includes
IncludedResults == Prefix(rq_results, Len(rq_parts))

\* C6: the token estimates of the candidates included in the returned
\* context sum to at most the token budget.
C6_ContextBudget ==
    RetrReturned =>
        /\ rq_context = ExpectedContext(IncludedResults)
        /\ SumResultTokens(IncludedResults) <= rq_max_tokens

\* several candidates included, the budget used up exactly
C6_Witness ==
    /\ rq_pc = "done"
    /\ Len(rq_parts) >= 2
    /\ Len(rq_parts) < Len(rq_results)
    /\ SumResultTokens(IncludedResults) = rq_max_tokens

\* C7: with a file name given, every candidate of the returned context is an
\* object of that file among the first 60 of the index; at most 20 candidates
\* are kept and at most 60 are requested.
C7_DocumentFilter ==
    (RetrReturned /\ NameGiven(rq_filename)) =>
        /\ rq_limit <= 60
        /\ Len(rq_results) <= 20
        /\ \A i \in 1..Len(rq_results) :
              /\ rq_results[i].filename = rq_filename
              /\ \E j \in 1..Min(60, Len(ranked)) :
                    /\ ranked[j].filename = rq_filename
                    /\ ranked[j].content = rq_results[i].content
                    /\ ranked[j].page_number = rq_results[i].page_number
        /\ rq_context = ExpectedContext(IncludedResults)

\* an index of more than 60 objects of two documents, more than 20 of them of
\* the requested one, all 20 kept candidates in the context
C7_Witness ==
    /\ rq_pc = "done"
    /\ NameGiven(rq_filename)
    /\ Len(ranked) > 60
    /\ \E j \in 1..60 : ranked[j].filename # rq_filename
    /\ Cardinality({j \in 1..60 : ranked[j].filename = rq_filename}) > 20
    /\ Len(rq_results) = 20
    /\ Len(rq_parts) = 20

\* length of the longest leading run of results within the budget
LeadingRun(results, budget) ==
    CHOOSE n \in 0..Len(results) :
        /\ \A k \in 1..n : SumResultTokens(Prefix(results, k)) <= budget
        /\ n < Len(results) => SumResultTokens(Prefix(results, n + 1)) > budget

\* C8: the context is the longest leading run of the filtered candidates
\* within the budget, in provider order, each whole with its page prefix,
\* joined by blank lines; it is empty without candidates or when the first
\* candidate alone exceeds the budget.
C8_GreedyPrefix ==
    RetrReturned =>
        /\ rq_context =
              ExpectedContext(Prefix(rq_results, LeadingRun(rq_results, rq_max_tokens)))
        /\ (rq_results = <<>> \/ rq_results[1].tokens > rq_max_tokens) => rq_context = <<>>

\* the loop stops in the middle although a later candidate would still fit
C8_Witness ==
    /\ rq_pc = "done"
    /\ Len(rq_parts) >= 1
    /\ Len(rq_parts) + 1 < Len(rq_results)
    /\ \E j \in (Len(rq_parts) + 2)..Len(rq_results) :
          rq_tokens + rq_results[j].tokens <= rq_max_tokens

(***************************************************************************)
(* Properties of the application.                                          *)
(***************************************************************************)
UploadDone == http_request.op = "upload" /\ http_response.status = 200

\* the chat handler reached the language model
ChatCalled == http_request.op = "chat" /\ llm_calls # <<>>

\* C4: after an upload of n chunks whose indexing did not fail, the mode is
\* retrieval if n > 5 and full-context if n <= 5, whatever the mode was before.
C4_ModeSelection ==
    (UploadDone /\ active_upload.embed # "failed") =>
        /\ http_response.chunks = Len(_current_chunks)
        /\ use_rag = (Len(_current_chunks) > 5)

\* a document of exactly 5 chunks uploaded while retrieval was on
C4_Witness ==
    /\ UploadDone
    /\ active_upload.embed # "failed"
    /\ http_request.use_rag_before
    /\ Len(_current_chunks) = 5
    /\ ~use_rag

\* C5: once create_embeddings has failed in an upload, the document stays in
\* full-context mode until the next upload; a chat call changes neither the
\* mode nor the collection.
C5_NoRetry ==
    /\ [](active_upload.embed = "failed" => (Len(_current_chunks) > 5 /\ ~use_rag))
    /\ [][(active_upload.embed = "failed" /\ http_request'.op = "chat") =>
              (/\ active_upload'.embed = "failed"
               /\ use_rag' = FALSE
               /\ weaviate' = weaviate)]_vars

\* two chat calls answered after the indexing of a document failed that was
\* uploaded while retrieval was on
C5_Witness ==
    /\ active_upload.embed = "failed"
    /\ active_upload.chats >= 2
    /\ http_request.op = "chat"
    /\ http_response.status = 200
    /\ \E i \in 1..Len(weaviate) : weaviate[i].filename # current_filename

\* C9: the language model receives one system message, then the last
\* min(H, 8) turns of the history unchanged and in order, then the new user
\* message.
C9_HistoryTrimming ==
    ChatCalled =>
        LET msgs == llm_calls[1]
            H == Len(http_request.history)
            k == Min(H, 8)
        IN  /\ Len(llm_calls) = 1
            /\ Len(msgs) = k + 2
            /\ msgs[1].role = "system"
            /\ \A i \in 2..Len(msgs) : msgs[i].role # "system"
            /\ \A i \in 1..k : msgs[1 + i] = http_request.history[H - k + i]
            /\ msgs[k + 2] = [role |-> "user", content |-> http_request.message]

\* a chat call with a history of more than 8 turns
C9_Witness ==
    /\ ChatCalled
    /\ http_response.status = 200
    /\ Len(http_request.history) > 8

\* C10: in full-context mode the system message holds a prefix of the document
\* text of at most 4000 characters, followed by the truncation notice when the
\* document text is longer than 4000 characters.
C10_PreviewCeiling ==
    (ChatCalled /\ ~use_rag) =>
        LET sys == llm_calls[1][1].content
            noted == sys[Len(sys)] = PreviewNote[1]
            injected == SubSeq(sys, 3, Len(sys) - (IF noted THEN 1 ELSE 0))
        IN  /\ Len(injected) <= 4000
            /\ injected = Prefix(pdf_context, Len(injected))
            /\ Len(pdf_context) > 4000 => noted

\* the system message of the chat call
SystemContent == llm_calls[1][1].content

\* the system message carries no "Relevant PDF Content" section
NothingRetrieved == Len(SystemContent) < 2 \/ SystemContent[2] # RelevantHeader[1]

\* C11: when a document is active and the retrieved context of a chat call is
\* empty, the system message holds the preview of the document text (its first
\* 4000 characters at most) and not the bare instructions.
C11_EmptyContextFallback ==
    (ChatCalled /\ TextGiven(pdf_context) /\ (use_rag => NothingRetrieved)) =>
        LET k == Min(Len(pdf_context), PreviewChars)
        IN  /\ Len(SystemContent) >= 2 + k
            /\ SubSeq(SystemContent, 3, 2 + k) = Prefix(pdf_context, k)

\* the language-model call of the chat handler raised
ChatFailed == ChatCalled /\ http_response.status = 500

\* C12: when the language-model call fails, the chat call ends with an error,
\* the model was called once, and the history passed in is as it was: neither
\* the caller's list nor the history the client holds has a new turn.
C12_GenerationFailure ==
    /\ [](ChatFailed => (/\ Len(llm_calls) = 1
                         /\ http_request.passed_history = http_request.history
                         /\ http_response.conversation_history = <<>>))
    /\ [][(http_request'.op = "chat" /\ http_response'.status = 500) =>
              conversation_history' = conversation_history]_vars

\* a failed chat call that was given a history of earlier turns
C12_Witness == ChatFailed /\ Len(http_request.history) >= 2

\* C13: an upload whose text extraction fails ends with an error and leaves
\* the fields of the PDF service and of the chat service and the collection
\* exactly as they were.
C13_ExtractionFailure ==
    [][(http_request'.op = "upload" /\ http_response'.detail = "extract") =>
          (/\ http_response'.status = 500
           /\ UNCHANGED <<pdfVars, chatVars, weaviate>>)]_vars

\* the extraction of b.pdf failed while a.pdf was active in retrieval mode
C13_Witness ==
    /\ http_request.op = "upload"
    /\ http_request.filename = "b.pdf"
    /\ http_response.detail = "extract"
    /\ current_filename = "a.pdf"
    /\ _current_pdf_path = SavedPath("a.pdf")
    /\ use_rag

\* C14: when create_embeddings fails in an upload whose extraction succeeded,
\* the upload is answered as a success, the uploaded document is the active
\* one in both services, and the mode is full-context.
C14_IndexingFailure ==
    (/\ http_request.op = "upload"
     /\ http_response.detail \notin {"type", "size"} \cup ProcessFaults
     /\ active_upload.embed = "failed") =>
        /\ http_response.status = 200
        /\ http_response.chunks = Len(_current_chunks)
        /\ current_filename = http_request.filename
        /\ _current_pdf_path = SavedPath(http_request.filename)
        /\ pdf_context = _current_pdf_text
        /\ TextGiven(pdf_context)
        /\ use_rag = FALSE

\* the indexing of b.pdf fails while retrieval was on and a.pdf is indexed
C14_Witness ==
    /\ http_request.op = "upload"
    /\ http_request.filename = "b.pdf"
    /\ http_request.use_rag_before
    /\ http_response.status = 200
    /\ active_upload.embed = "failed"
    /\ \E i \in 1..Len(weaviate) : weaviate[i].filename = "a.pdf"

\* the index query of the chat call raised
QueryFailed == ChatCalled /\ external.query = "raises"

\* C15: when the index query fails in a chat call in retrieval mode, nothing
\* is retrieved, the language model is called once with the system message,
\* the trimmed history and the user turn, the call is answered normally unless
\* the model call fails too, and the retrieval flag stays as it was.
C15_RetrievalFailure ==
    /\ [](QueryFailed =>
            LET msgs == llm_calls[1]
                k == Min(Len(http_request.history), HistoryWindowSize)
            IN  /\ use_rag
                /\ Len(llm_calls) = 1
                /\ SystemContent = BasePrompt
                /\ Len(msgs) = k + 2
                /\ msgs[k + 2] = ChatMessage("user", http_request.message)
                /\ external.llm = "ok" =>
                      /\ http_response.status = 200
                      /\ Len(http_response.conversation_history)
                            = Len(http_request.history) + 2)
    /\ [][http_request'.op = "chat" => use_rag' = use_rag]_vars

\* a chat call answered although its index query raised, the index holding
\* the chunks of the active document
C15_Witness ==
    /\ QueryFailed
    /\ http_response.status = 200
    /\ \E i \in 1..Len(weaviate) : weaviate[i].filename = current_filename

\* the document context a chat call reads
Snapshot ==
    [text |-> _current_pdf_text, pdf_context |-> pdf_context,
     current_filename |-> current_filename, use_rag |-> use_rag]

\* every chunk of the current document is in the index under its file name
ChunksIndexed ==
    \A i \in 1..Len(_current_chunks) :
        \E j \in 1..Len(weaviate) :
            weaviate[j] = DataObject(_current_chunks[i], current_filename)

\* C16: a chat call that runs while an upload is in progress reads the whole
\* context of the last completed upload or, once the upload is over, the whole
\* context of the new one: never the new text or file name with the old flag,
\* and never the flag of a document whose chunks are not in the index.
C16_AtomicReplacement ==
    [][(upload_task' = upload_task /\ http_request'.op = "chat") =>
          (/\ Snapshot = active_upload.context
           /\ use_rag => ChunksIndexed)]_vars

\* a chat call answered while the upload of another document awaits its file,
\* the active document being in retrieval mode
C16_Witness ==
    /\ upload_task.pc = "read"
    /\ upload_task.filename # current_filename
    /\ ChatCalled
    /\ http_response.status = 200
    /\ use_rag

\* the entries of a collection that carry the file name, and the other ones
EntriesOf(objects, filename) == SelectSeq(objects, LAMBDA o : o.filename = filename)
EntriesNotOf(objects, filename) == SelectSeq(objects, LAMBDA o : o.filename # filename)

\* the entries are the chunks, each of them once
ExactlyChunks(entries, cs, filename) ==
    /\ Len(entries) = Len(cs)
    /\ \A i \in 1..Len(cs) :
          Cardinality({j \in 1..Len(entries) : entries[j] = DataObject(cs[i], filename)}) = 1

\* C17: after create_embeddings(chunks, filename) has returned True, the index
\* entries of that file name are exactly the given chunks, each once, and the
\* entries of other file names are the ones that were there before.
C17_UpsertReplaces ==
    [][(/\ http_request'.op = "upload"
        /\ http_response'.status = 200
        /\ active_upload'.embed = "ok") =>
          (/\ ExactlyChunks(EntriesOf(weaviate', current_filename'), _current_chunks',
                            current_filename')
           /\ EntriesNotOf(weaviate', current_filename')
                 = EntriesNotOf(weaviate, current_filename'))]_vars

\* C18: when create_embeddings has returned False, the index entries of the
\* file name are the ones that were there before the call: nothing deleted,
\* nothing inserted.
C18_FailedUpsertKeepsIndex ==
    [][(/\ http_request'.op = "upload"
        /\ http_response'.status = 200
        /\ active_upload'.embed = "failed") =>
          EntriesOf(weaviate', current_filename')
              = EntriesOf(weaviate, current_filename')]_vars

\* the fields of the two services are those of the uploaded file `doc`
ContextOf(doc, filename, embed) ==
    /\ _current_pdf_text' = doc.extracted_text
    /\ _current_chunks' = doc.chunks
    /\ _current_pdf_path' = SavedPath(filename)
    /\ pdf_context' = doc.extracted_text
    /\ current_filename' = filename
    /\ use_rag' = (Len(doc.chunks) > RagThreshold /\ embed = "ok")

\* C19: the document context is that of the most recent successful upload:
\* after a successful upload the text, the chunks, the path, the file name and
\* the retrieval flag are those of the uploaded file alone, and every other
\* request leaves them as they are.
C19_WholesaleReplacement ==
    [][IF http_request'.op = "upload" /\ http_response'.status = 200
       THEN \E d \in 1..Len(SmallProcessed[tokenizer]) :
               ContextOf(SmallProcessed[tokenizer][d], http_request'.filename,
                         active_upload'.embed)
       ELSE UNCHANGED <<pdfVars, chatVars>>]_vars

\* a one-page b.pdf uploaded after a.pdf had been indexed in retrieval mode
C19_Witness ==
    /\ UploadDone
    /\ http_request.use_rag_before
    /\ current_filename = "b.pdf"
    /\ Len(_current_chunks) = 1
    /\ \E i \in 1..Len(weaviate) : weaviate[i].filename = "a.pdf"

(***************************************************************************)
(* Properties of the normalization.                                        *)
(***************************************************************************)
\* C20: _clean_text is idempotent: applied to its own result it returns that
\* result, for every text over blanks, newlines, digits, '0', '|' and letters.
C20_CleanIdempotent == ct_pc = "twice" => ct_recleaned = ct_cleaned

\* a text with a newline, a bar and a zero, cleaned twice to a non-empty text
C20_Witness ==
    /\ ct_pc = "twice"
    /\ ct_cleaned # <<>>
    /\ \E i, j, k \in 1..Len(ct_text) :
          ct_text[i] = "\n" /\ ct_text[j] = "|" /\ ct_text[k] = "0"

(***************************************************************************)
(* Properties of the extraction.                                           *)
(***************************************************************************)
\* the sentences _create_chunks is given for page p (0-based) of the file
SentencesOfPage(p) ==
    IF Strip(pdf_pages[p + 1]) = <<>> THEN <<>>
    ELSE _split_into_sentences(_clean_text(pdf_pages[p + 1]))

\* the chunks of page p, in the order of their emission
ChunksOfPage(p) == SelectSeq(chunks, LAMBDA c : c.page_number = p)

\* the content is a run of one or more whole sentences joined by blanks
WholeSentences(content, sentences) ==
    \E a \in 1..Len(sentences) : \E b \in a..Len(sentences) :
        content = Join(<<" ">>, SubSeq(sentences, a, b))

\* C21: the chunks of every page are numbered 0, 1, ..., n-1 in emission
\* order, the numbering starting again at 0 on each page; every chunk has a
\* non-empty content made of whole sentences of its page; a page without
\* sentences has no chunk; no two chunks of a file share (page_number,
\* chunk_index).
C21_ChunkNumbering ==
    cc_pc = "done" =>
        /\ \A p \in 0..(Len(pdf_pages) - 1) :
              LET cp == ChunksOfPage(p)
                  sentences == SentencesOfPage(p)
              IN  /\ \A i \in 1..Len(cp) :
                        /\ cp[i].chunk_index = i - 1
                        /\ cp[i].content # <<>>
                        /\ WholeSentences(cp[i].content, sentences)
                  /\ sentences = <<>> => cp = <<>>
                  /\ sentences # <<>> => cp # <<>>
        /\ \A i \in 1..Len(chunks) :
              /\ chunks[i].page_number \in 0..(Len(pdf_pages) - 1)
              /\ i > 1 => chunks[i - 1].page_number <= chunks[i].page_number
        /\ \A i, j \in 1..Len(chunks) :
              (/\ chunks[i].page_number = chunks[j].page_number
               /\ chunks[i].chunk_index = chunks[j].chunk_index) => i = j

\* a file with a page of three chunks, a page without sentences and a later
\* page of two chunks
C21_Witness ==
    /\ cc_pc = "done"
    /\ Len(pdf_pages) = 3
    /\ Len(ChunksOfPage(0)) = 3
    /\ SentencesOfPage(1) = <<>>
    /\ Len(ChunksOfPage(2)) = 2

\* the chat call was answered
ChatAnswered == ChatCalled /\ http_response.status = 200

\* C22: a chat call that succeeds returns the whole history it was given,
\* all its turns and not the window sent to the model, followed by the user
\* message and then the assistant reply; when the returned history is fed
\* back, the history of the conversation grows by these two turns and its
\* earlier turns stay as they were.
C22_HistoryAppendOnly ==
    /\ [](ChatAnswered =>
            LET H == Len(http_request.history)
                returned == http_response.conversation_history
            IN  /\ Len(returned) = H + 2
                /\ SubSeq(returned, 1, H) = http_request.history
                /\ returned[H + 1] = ChatMessage("user", http_request.message)
                /\ returned[H + 2]
                      = ChatMessage("assistant", Reply(http_request.message)))
    /\ [][(/\ http_request'.op = "chat"
           /\ http_response'.status = 200
           /\ http_request'.history = conversation_history) =>
             (/\ Len(conversation_history') = Len(conversation_history) + 2
              /\ SubSeq(conversation_history', 1, Len(conversation_history))
                    = conversation_history)]_vars

\* the answer to a chat call whose history is longer than the window sent to
\* the model
C22_Witness ==
    /\ ChatAnswered
    /\ Len(http_request.history) = HistoryWindowSize + 2
    /\ Len(llm_calls[1]) = HistoryWindowSize + 2
    /\ Len(http_response.conversation_history) = HistoryWindowSize + 4

====
